---- MODULE Spec2Model ----
(***************************************************************************)
(* Model of the deterministic level builder (buildLevel) of reality-jump.  *)
(*                                                                         *)
(* Numbers: the builder computes on JavaScript numbers.  The model uses    *)
(* exact fixed-point arithmetic: every coordinate is an integer multiple   *)
(* of 1/(1000 * 2^12), so 0.25 is 250 * Milli.  All inputs are multiples   *)
(* of 1/1000; the repair loop halves sums at most 10 times in a row, so    *)
(* every division by two in the model is exact.                            *)
(*                                                                         *)
(* Object identity: the builder compares Bounds objects with ===.  Every   *)
(* Bounds object created for a platform candidate carries a field ref that *)
(* is unique within one call (detections: 1, 2, ... in creation order;     *)
(* ground: 0; the bridge of repair iteration k: -k).  Bounds objects that  *)
(* belong to the input detections are never compared and carry no ref.     *)
(***************************************************************************)
EXTENDS Integers, Sequences, FiniteSets, TLC

VARIABLES
    pc,                     \* position in buildLevel ("idle" before a call)
    input,                  \* the DetectionResponse of the running call
    candidates,             \* PlatformCandidate[]  (Steps A-C)
    collectibleDetections,  \* Detection[]
    obstacleDetections,     \* Detection[]
    platforms,              \* PlatformCandidate[]  (Steps D-L)
    bridgesInserted,        \* loop flag of Step E
    iterations,             \* loop counter of Step E
    objects,                \* SceneObject[]
    idCounter,              \* counter behind nextId
    playerSpawn, exitSpawn, \* SpawnPoint
    pickups, enemies,       \* PickupSpawn[], EnemySpawn[]
    scene,                  \* the returned SceneV1 (<<>> until Step M)
    called                  \* history: has an earlier call returned?

vars == <<pc, input, candidates, collectibleDetections, obstacleDetections,
          platforms, bridgesInserted, iterations, objects, idCounter,
          playerSpawn, exitSpawn, pickups, enemies, scene, called>>

----------------------------------------------------------------------------
(* Fixed point and constants *)

Milli == 2^12

MAX_JUMP_HEIGHT_Physics == 350 * Milli
MAX_JUMP_HEIGHT == 250 * Milli

MAX_HORIZONTAL_REACH == 400 * Milli

MIN_PLATFORM_WIDTH == 80 * Milli

PLATFORM_THICKNESS == 30 * Milli

MAX_PLATFORMS == 10

ENTITY_OFFSET_Y == 60 * Milli

MAX_REPAIR_ITERATIONS == 10

SCHEMA_PLATFORM_CAP == 12

MAX_OBSTACLES == 4

MAX_COLLECTIBLES == 5

----------------------------------------------------------------------------
(* Helpers *)

Min2(a, b) == IF a < b THEN a ELSE b

Max2(a, b) == IF a > b THEN a ELSE b

Abs(v) == IF v < 0 THEN -v ELSE v

Half(v) == v \div 2

Take(s, n) == SubSeq(s, 1, Min2(n, Len(s)))

clamp(v, lo, hi) == Max2(lo, Min2(hi, v))

horizontalOverlap(a, b) == a.x < b.x + b.w /\ a.x + a.w > b.x

horizontalGap(a, b) ==
    LET aRight == a.x + a.w
        bRight == b.x + b.w
    IN  IF a.x < bRight /\ aRight > b.x THEN 0
        ELSE Min2(Abs(a.x - bRight), Abs(b.x - aRight))

(* Array.prototype.sort((a, b) => b.bounds.y - a.bounds.y): stable, descending y *)
RECURSIVE InsertDescY(_, _)
InsertDescY(s, e) ==
    IF s = <<>> THEN <<e>>
    ELSE IF Head(s).bounds.y >= e.bounds.y
         THEN <<Head(s)>> \o InsertDescY(Tail(s), e)
         ELSE <<e>> \o s

RECURSIVE SortDescY(_)
SortDescY(s) ==
    IF s = <<>> THEN <<>>
    ELSE InsertDescY(SortDescY(SubSeq(s, 1, Len(s) - 1)), s[Len(s)])

(* [...platforms].sort((a, b) => a.bounds.y - b.bounds.y): stable, ascending y *)
RECURSIVE InsertAscY(_, _)
InsertAscY(s, e) ==
    IF s = <<>> THEN <<e>>
    ELSE IF Head(s).bounds.y <= e.bounds.y
         THEN <<Head(s)>> \o InsertAscY(Tail(s), e)
         ELSE <<e>> \o s

RECURSIVE SortAscY(_)
SortAscY(s) ==
    IF s = <<>> THEN <<>>
    ELSE InsertAscY(SortAscY(SubSeq(s, 1, Len(s) - 1)), s[Len(s)])

(* nextId(prefix): the string `${prefix}_${idCounter}` as the pair it encodes *)
nextId(prefix, counter) == [prefix |-> prefix, n |-> counter]

(* let idCounter = 0: the counter a call starts from, given the value the
   previous call left behind *)
NewIdCounter_Shared(left) == left
NewIdCounter(left) == 0

----------------------------------------------------------------------------
(* Step A: detections to candidates, collectibles and obstacles *)

PlatBounds_Unclamped(det, ref) ==
    [x |-> det.bounds_normalized.x,
     y |-> det.bounds_normalized.y,
     w |-> det.bounds_normalized.w,
     h |-> PLATFORM_THICKNESS,
     ref |-> ref]

PlatBounds(det, ref) ==
    [x |-> clamp(det.bounds_normalized.x, 0, 950 * Milli),
     y |-> clamp(det.bounds_normalized.y, 50 * Milli, 900 * Milli),
     w |-> clamp(det.bounds_normalized.w, 50 * Milli, 900 * Milli),
     h |-> PLATFORM_THICKNESS,
     ref |-> ref]

IsCollectible_None(det) == FALSE
IsCollectible(det) == det.category = "food"

Candidate(det, platBounds) ==
    [label |-> det.label,
     category |-> det.category,
     confidence |-> det.confidence,
     bounds |-> platBounds,
     isBridge |-> FALSE,
     isGround |-> FALSE,
     enemyAnchor |-> det.category \in {"plant", "electric"}]

RECURSIVE Extract(_, _)
Extract(dets, n) ==
    IF n = 0
    THEN [candidates |-> <<>>, collectibleDetections |-> <<>>,
          obstacleDetections |-> <<>>, allocated |-> 0]
    ELSE LET prev == Extract(dets, n - 1)
             det == dets[n]
             platBounds == PlatBounds(det, prev.allocated + 1)
         IN  IF IsCollectible(det)
             THEN [prev EXCEPT !.collectibleDetections = Append(@, det)]
             ELSE IF platBounds.w < MIN_PLATFORM_WIDTH
                  THEN [prev EXCEPT !.obstacleDetections = Append(@, det),
                                    !.allocated = @ + 1]
                  ELSE [prev EXCEPT !.candidates = Append(@, Candidate(det, platBounds)),
                                    !.allocated = @ + 1]

(* Step B: the ground platform *)
Ground ==
    [label |-> "ground",
     category |-> "furniture",
     confidence |-> 100,
     bounds |-> [x |-> 0, y |-> 920 * Milli, w |-> 1000 * Milli,
                 h |-> PLATFORM_THICKNESS, ref |-> 0],
     isBridge |-> FALSE,
     isGround |-> TRUE,
     enemyAnchor |-> FALSE]

(* Step D: de-duplicate, then keep the first MAX_PLATFORMS *)
tooClose_LastOnly(filtered, cand) ==
    /\ filtered # <<>>
    /\ Abs(filtered[Len(filtered)].bounds.y - cand.bounds.y) < 50 * Milli
    /\ horizontalOverlap(filtered[Len(filtered)].bounds, cand.bounds)
tooClose_SameHeight(filtered, cand) ==
    \E i \in 1..Len(filtered) :
        /\ filtered[i].bounds.y = cand.bounds.y
        /\ horizontalOverlap(filtered[i].bounds, cand.bounds)
tooClose_Tight(filtered, cand) ==
    \E i \in 1..Len(filtered) :
        /\ Abs(filtered[i].bounds.y - cand.bounds.y) < 10 * Milli
        /\ horizontalOverlap(filtered[i].bounds, cand.bounds)
tooClose(filtered, cand) ==
    \E i \in 1..Len(filtered) :
        /\ Abs(filtered[i].bounds.y - cand.bounds.y) < 50 * Milli
        /\ horizontalOverlap(filtered[i].bounds, cand.bounds)

RECURSIVE Dedup(_, _)
Dedup(cands, n) ==
    IF n = 0 THEN <<>>
    ELSE LET filtered == Dedup(cands, n - 1)
         IN  IF tooClose(filtered, cands[n]) THEN filtered
             ELSE Append(filtered, cands[n])

Filtered(cands) == Dedup(cands, Len(cands))

----------------------------------------------------------------------------
(* Step E: reachability repair *)

(* the two tests of the scan, in the order the scan makes them *)
VerticalViolation(lower, upper) ==
    lower.bounds.y - upper.bounds.y > MAX_JUMP_HEIGHT

HorizontalViolation(lower, upper) ==
    horizontalGap(lower.bounds, upper.bounds) > MAX_HORIZONTAL_REACH

Violation(lower, upper) ==
    VerticalViolation(lower, upper) \/ HorizontalViolation(lower, upper)

(* index i of the first pair (i, i+1) at which the scan breaks, 0 if none *)
FirstViolation_Last(plats) ==
    LET bad == {i \in 1..(Len(plats) - 1) : Violation(plats[i], plats[i + 1])}
    IN  IF bad = {} THEN 0
        ELSE CHOOSE i \in bad : \A j \in bad : i >= j
FirstViolation(plats) ==
    LET bad == {i \in 1..(Len(plats) - 1) : Violation(plats[i], plats[i + 1])}
    IN  IF bad = {} THEN 0
        ELSE CHOOSE i \in bad : \A j \in bad : i <= j

(* the bridge / stepping stone built for the pair, created in iteration k *)
Bridge(lower, upper, k) ==
    LET midY == Half(lower.bounds.y + upper.bounds.y)
        lowerCenterX == lower.bounds.x + Half(lower.bounds.w)
        upperCenterX == upper.bounds.x + Half(upper.bounds.w)
        bridgeX == clamp(Half(lowerCenterX + upperCenterX) - 75 * Milli,
                         20 * Milli, 850 * Milli)
    IN  [label |-> IF VerticalViolation(lower, upper) THEN "bridge"
                   ELSE "stepping stone",
         category |-> "other",
         confidence |-> 100,
         bounds |-> [x |-> bridgeX, y |-> midY, w |-> 150 * Milli,
                     h |-> PLATFORM_THICKNESS, ref |-> -k],
         isBridge |-> TRUE,
         isGround |-> FALSE,
         enemyAnchor |-> FALSE]

(* one pass of the while body, run as iteration k: scan, splice, re-sort *)
RepairPass(plats, k) ==
    LET i == FirstViolation(plats)
    IN  IF i = 0
        THEN [platforms |-> SortDescY(plats), bridgesInserted |-> FALSE]
        ELSE [platforms |->
                  SortDescY(SubSeq(plats, 1, i)
                            \o <<Bridge(plats[i], plats[i + 1], k)>>
                            \o SubSeq(plats, i + 1, Len(plats))),
              bridgesInserted |-> TRUE]

(* the while condition *)
LoopContinues_NoCap(inserted, iters) == inserted
LoopContinues_Once(inserted, iters) == inserted /\ iters < 1
LoopContinues(inserted, iters) == inserted /\ iters < MAX_REPAIR_ITERATIONS

(* while (platforms.length > 12) platforms.pop() *)
CapPlatforms_None(plats) == plats
CapPlatforms_DropFront(plats) ==
    IF Len(plats) <= SCHEMA_PLATFORM_CAP THEN plats
    ELSE SubSeq(plats, Len(plats) - SCHEMA_PLATFORM_CAP + 1, Len(plats))
CapPlatforms(plats) == Take(plats, SCHEMA_PLATFORM_CAP)

(* the whole loop, from the state (plats, inserted, iters) *)
RECURSIVE RepairLoop(_, _, _)
RepairLoop(plats, inserted, iters) ==
    IF LoopContinues(inserted, iters)
    THEN LET r == RepairPass(plats, iters + 1)
         IN  RepairLoop(r.platforms, r.bridgesInserted, iters + 1)
    ELSE [platforms |-> plats, bridgesInserted |-> inserted,
          iterations |-> iters]

----------------------------------------------------------------------------
(* Steps F-H: scene objects *)

PlatformObject(plat, counter) ==
    [id |-> nextId(IF plat.isGround THEN "ground"
                   ELSE IF plat.isBridge THEN "bridge" ELSE "plat", counter),
     type |-> "platform",
     label |-> plat.label,
     confidence |-> plat.confidence,
     bounds_normalized |-> plat.bounds,
     surface_type |-> "solid",
     category |-> plat.category,
     enemy_spawn_anchor |-> plat.enemyAnchor]

ObstacleObject(det, counter) ==
    [id |-> nextId("obs", counter),
     type |-> "obstacle",
     label |-> det.label,
     confidence |-> det.confidence,
     bounds_normalized |-> det.bounds_normalized,
     category |-> det.category,
     enemy_spawn_anchor |-> det.category \in {"plant", "electric"}]

CollectibleObject(det, counter) ==
    [id |-> nextId("col", counter),
     type |-> "collectible",
     label |-> det.label,
     confidence |-> det.confidence,
     bounds_normalized |-> det.bounds_normalized,
     category |-> "food"]

(* the objects pushed by one of the three loops, ids from counter upwards *)
PlatformObjects(plats, counter) ==
    [i \in 1..Len(plats) |-> PlatformObject(plats[i], counter + i - 1)]

ObstacleObjects(dets, counter) ==
    LET kept == Take(dets, MAX_OBSTACLES)
    IN  [i \in 1..Len(kept) |-> ObstacleObject(kept[i], counter + i - 1)]

CollectibleObjects_Uncapped(dets, counter) ==
    [i \in 1..Len(dets) |-> CollectibleObject(dets[i], counter + i - 1)]
CollectibleObjects(dets, counter) ==
    LET kept == Take(dets, MAX_COLLECTIBLES)
    IN  [i \in 1..Len(kept) |-> CollectibleObject(kept[i], counter + i - 1)]

----------------------------------------------------------------------------
(* Steps I-L: entity placement *)

(* platforms.find((p) => p.isGround) || platforms[0] *)
GroundPlat(plats) ==
    LET g == {i \in 1..Len(plats) : plats[i].isGround}
    IN  IF g = {} THEN plats[1]
        ELSE plats[CHOOSE i \in g : \A j \in g : i <= j]

PlayerSpawn(plats) ==
    [x |-> 80 * Milli, y |-> GroundPlat(plats).bounds.y - ENTITY_OFFSET_Y]

HighestPlat(plats) == SortAscY(plats)[1]

ExitSpawn(plats) ==
    LET highestPlat == HighestPlat(plats)
    IN  [x |-> clamp(highestPlat.bounds.x + highestPlat.bounds.w - 50 * Milli,
                     700 * Milli, 950 * Milli),
         y |-> highestPlat.bounds.y - ENTITY_OFFSET_Y]

(* the spawn point above the centre of a platform *)
OnPlatform(plat, type) ==
    [x |-> clamp(plat.bounds.x + Half(plat.bounds.w), 50 * Milli, 950 * Milli),
     y |-> plat.bounds.y - ENTITY_OFFSET_Y,
     type |-> type]

(* the two ground coins of the last fallback *)
GroundCoins_One(plats) ==
    <<[x |-> 300 * Milli, y |-> GroundPlat(plats).bounds.y - ENTITY_OFFSET_Y,
       type |-> "coin"]>>
GroundCoins(plats) ==
    <<[x |-> 300 * Milli, y |-> GroundPlat(plats).bounds.y - ENTITY_OFFSET_Y,
       type |-> "coin"],
      [x |-> 500 * Milli, y |-> GroundPlat(plats).bounds.y - ENTITY_OFFSET_Y,
       type |-> "coin"]>>

Pickups_Uncapped(plats) ==
    LET pickupPlatforms == SelectSeq(plats, LAMBDA p : ~p.isGround /\ ~p.isBridge)
        onReal == [i \in 1..Len(pickupPlatforms) |->
                      OnPlatform(pickupPlatforms[i],
                                 IF i = 1 THEN "health" ELSE "coin")]
        bridgePlats == SelectSeq(plats, LAMBDA p : p.isBridge)
        onBridges == IF Len(onReal) < 3
                     THEN [i \in 1..Min2(Len(bridgePlats), 4 - Len(onReal)) |->
                              OnPlatform(bridgePlats[i], "coin")]
                     ELSE <<>>
        soFar == onReal \o onBridges
    IN  IF Len(soFar) < 3 THEN soFar \o GroundCoins(plats) ELSE soFar
Pickups(plats) ==
    LET pickupPlatforms == SelectSeq(plats, LAMBDA p : ~p.isGround /\ ~p.isBridge)
        onReal == [i \in 1..Min2(Len(pickupPlatforms), 5) |->
                      OnPlatform(pickupPlatforms[i],
                                 IF i = 1 THEN "health" ELSE "coin")]
        bridgePlats == SelectSeq(plats, LAMBDA p : p.isBridge)
        onBridges == IF Len(onReal) < 3
                     THEN [i \in 1..Min2(Len(bridgePlats), 4 - Len(onReal)) |->
                              OnPlatform(bridgePlats[i], "coin")]
                     ELSE <<>>
        soFar == onReal \o onBridges
    IN  IF Len(soFar) < 3 THEN soFar \o GroundCoins(plats) ELSE soFar

EnemyPlatforms_WithGround(plats) ==
    Take(SelectSeq(plats, LAMBDA p : ~p.isBridge /\ p.bounds.w > 150 * Milli), 2)
EnemyPlatforms(plats) ==
    Take(SelectSeq(plats, LAMBDA p : /\ ~p.isGround
                                     /\ ~p.isBridge
                                     /\ p.bounds.w > 150 * Milli), 2)

Enemies(plats) ==
    LET enemyPlatforms == EnemyPlatforms(plats)
    IN  [i \in 1..Len(enemyPlatforms) |-> OnPlatform(enemyPlatforms[i], "walker")]

(* o.bounds_normalized === plat.bounds *)
SameObject(a, b) == a.ref = b.ref

(* objects.find(...) and, if found, platObj.enemy_spawn_anchor = true *)
MarkAnchor(objs, plat) ==
    LET hit == {i \in 1..Len(objs) :
                   /\ objs[i].type = "platform"
                   /\ SameObject(objs[i].bounds_normalized, plat.bounds)}
    IN  IF hit = {} THEN objs
        ELSE [objs EXCEPT ![CHOOSE i \in hit : \A j \in hit : i <= j]
                              .enemy_spawn_anchor = TRUE]

RECURSIVE MarkAnchors(_, _, _)
MarkAnchors(objs, enemyPlatforms, n) ==
    IF n = 0 THEN objs
    ELSE MarkAnchor(MarkAnchors(objs, enemyPlatforms, n - 1), enemyPlatforms[n])

(* Step M *)
Scene(in, objs, player, exit, en, pk) ==
    [version |-> 1,
     image |-> [w |-> in.image.w, h |-> in.image.h],
     objects |-> objs,
     spawns |-> [player |-> player, exit |-> exit, enemies |-> en, pickups |-> pk],
     rules |-> <<>>]

----------------------------------------------------------------------------
(* buildLevel as a function of its input, composed of the steps above *)

BuildLevel(in) ==
    LET a == Extract(in.detections, Len(in.detections))
        sorted == SortDescY(Append(a.candidates, Ground))
        start == SortDescY(Take(Filtered(sorted), MAX_PLATFORMS))
        plats == CapPlatforms(RepairLoop(start, TRUE, 0).platforms)
        platObjs == PlatformObjects(plats, NewIdCounter(0))
        obsObjs == ObstacleObjects(a.obstacleDetections,
                                   NewIdCounter(0) + Len(platObjs))
        colObjs == CollectibleObjects(a.collectibleDetections,
                                      NewIdCounter(0) + Len(platObjs) + Len(obsObjs))
        enemyPlatforms == EnemyPlatforms(plats)
    IN  Scene(in,
              MarkAnchors(platObjs \o obsObjs \o colObjs,
                          enemyPlatforms, Len(enemyPlatforms)),
              PlayerSpawn(plats), ExitSpawn(plats), Enemies(plats), Pickups(plats))

----------------------------------------------------------------------------
(* Inputs *)

MaxReach == 5

MaxRoute == 6

MaxMixed == 3

MaxStairs == 14

Det(label, category, confidence, x, y, w, h) ==
    [label |-> label, category |-> category, confidence |-> confidence,
     bounds_normalized |-> [x |-> x * Milli, y |-> y * Milli,
                            w |-> w * Milli, h |-> h * Milli]]

(* detections that survive as platforms: narrow ones at the left edge, wide
   ones at the right edge, at two heights, and one in the middle *)
ReachDets ==
    {Det("shelf", "furniture", 90, 0, 50, 80, 100),
     Det("lamp", "electric", 80, 950, 50, 900, 100),
     Det("stool", "other", 70, 0, 100, 80, 100),
     Det("fern", "plant", 60, 950, 100, 900, 100),
     Det("table", "furniture", 95, 500, 300, 300, 200)}

(* detections that never become platforms: a wide food item, a food item and
   a narrow item with out-of-range bounds *)
RouteDets ==
    {Det("pizza", "food", 90, 300, 500, 500, 100),
     Det("apple", "food", 80, 1200, -100, 100, 1100),
     Det("cable", "electric", 70, 1100, 500, 60, 50)}

(* a detection with out-of-range bounds that clamps to y = 0.90, w = 0.9 *)
OtherDets ==
    {Det("rug", "plant", 50, -100, 1100, 1200, 100),
     Det("mat", "other", 50, 100, 700, 300, 100)}

(* the i-th step of a staircase that climbs 0.05 per step from y = 0.64:
   far steps alternate between a narrow one at the left edge and a wide one
   at the right edge, near steps between x = 0 and x = 0.3 *)
StairFar(i) ==
    IF i % 2 = 1
    THEN Det("step", "other", 60, 0, 640 - 50 * (i - 1), 80, 100)
    ELSE Det("ledge", "plant", 60, 950, 640 - 50 * (i - 1), 900, 100)

StairNear(i) ==
    IF i % 2 = 1
    THEN Det("step", "other", 60, 0, 640 - 50 * (i - 1), 200, 100)
    ELSE Det("ledge", "plant", 60, 300, 640 - 50 * (i - 1), 200, 100)

Stairs(n) ==
    {[i \in 1..k |-> StairFar(i)] : k \in 0..n}
        \cup {[i \in 1..k |-> StairNear(i)] : k \in 0..n}

SeqsUpTo(S, n) == UNION {[1..k -> S] : k \in 0..n}

Inputs ==
    {[image |-> [w |-> 640, h |-> 480], detections |-> d] :
        d \in SeqsUpTo(ReachDets, MaxReach)
              \cup SeqsUpTo(RouteDets, MaxRoute)
              \cup SeqsUpTo(ReachDets \cup RouteDets \cup OtherDets, MaxMixed)
              \cup Stairs(MaxStairs)}

----------------------------------------------------------------------------
(* The state machine: calls of buildLevel, one action per step *)

NoInput == [image |-> [w |-> 0, h |-> 0], detections |-> <<>>]

NoSpawn == [x |-> 0, y |-> 0]

Init ==
    /\ pc = "idle"
    /\ input = NoInput
    /\ candidates = <<>>
    /\ collectibleDetections = <<>>
    /\ obstacleDetections = <<>>
    /\ platforms = <<>>
    /\ bridgesInserted = FALSE
    /\ iterations = 0
    /\ objects = <<>>
    /\ idCounter = 0
    /\ playerSpawn = NoSpawn
    /\ exitSpawn = NoSpawn
    /\ pickups = <<>>
    /\ enemies = <<>>
    /\ scene = <<>>
    /\ called = FALSE

Call ==
    /\ pc = "idle"
    /\ \E in \in Inputs : input' = in
    /\ idCounter' = NewIdCounter(idCounter)
    /\ pc' = "A"
    /\ UNCHANGED <<candidates, collectibleDetections, obstacleDetections,
                   platforms, bridgesInserted, iterations, objects,
                   playerSpawn, exitSpawn, pickups, enemies, scene, called>>

StepA ==
    /\ pc = "A"
    /\ LET a == Extract(input.detections, Len(input.detections))
       IN  /\ candidates' = a.candidates
           /\ collectibleDetections' = a.collectibleDetections
           /\ obstacleDetections' = a.obstacleDetections
    /\ pc' = "B"
    /\ UNCHANGED <<input, platforms, bridgesInserted, iterations, objects,
                   idCounter, playerSpawn, exitSpawn, pickups, enemies, scene, called>>

StepB ==
    /\ pc = "B"
    /\ candidates' = Append(candidates, Ground)
    /\ pc' = "C"
    /\ UNCHANGED <<input, collectibleDetections, obstacleDetections, platforms,
                   bridgesInserted, iterations, objects, idCounter,
                   playerSpawn, exitSpawn, pickups, enemies, scene, called>>

StepC ==
    /\ pc = "C"
    /\ candidates' = SortDescY(candidates)
    /\ pc' = "D"
    /\ UNCHANGED <<input, collectibleDetections, obstacleDetections, platforms,
                   bridgesInserted, iterations, objects, idCounter,
                   playerSpawn, exitSpawn, pickups, enemies, scene, called>>

StepD ==
    /\ pc = "D"
    /\ platforms' = SortDescY(Take(Filtered(candidates), MAX_PLATFORMS))
    /\ bridgesInserted' = TRUE
    /\ iterations' = 0
    /\ pc' = "E"
    /\ UNCHANGED <<input, candidates, collectibleDetections, obstacleDetections,
                   objects, idCounter, playerSpawn, exitSpawn, pickups,
                   enemies, scene, called>>

RepairIteration ==
    /\ pc = "E"
    /\ LoopContinues(bridgesInserted, iterations)
    /\ LET r == RepairPass(platforms, iterations + 1)
       IN  /\ platforms' = r.platforms
           /\ bridgesInserted' = r.bridgesInserted
    /\ iterations' = iterations + 1
    /\ UNCHANGED <<pc, input, candidates, collectibleDetections,
                   obstacleDetections, objects, idCounter, playerSpawn,
                   exitSpawn, pickups, enemies, scene, called>>

ExitLoop ==
    /\ pc = "E"
    /\ ~LoopContinues(bridgesInserted, iterations)
    /\ platforms' = CapPlatforms(platforms)
    /\ pc' = "F"
    /\ UNCHANGED <<input, candidates, collectibleDetections, obstacleDetections,
                   bridgesInserted, iterations, objects, idCounter,
                   playerSpawn, exitSpawn, pickups, enemies, scene, called>>

StepF ==
    /\ pc = "F"
    /\ objects' = objects \o PlatformObjects(platforms, idCounter)
    /\ idCounter' = idCounter + Len(platforms)
    /\ pc' = "G"
    /\ UNCHANGED <<input, candidates, collectibleDetections, obstacleDetections,
                   platforms, bridgesInserted, iterations, playerSpawn,
                   exitSpawn, pickups, enemies, scene, called>>

StepG ==
    /\ pc = "G"
    /\ LET new == ObstacleObjects(obstacleDetections, idCounter)
       IN  /\ objects' = objects \o new
           /\ idCounter' = idCounter + Len(new)
    /\ pc' = "H"
    /\ UNCHANGED <<input, candidates, collectibleDetections, obstacleDetections,
                   platforms, bridgesInserted, iterations, playerSpawn,
                   exitSpawn, pickups, enemies, scene, called>>

StepH ==
    /\ pc = "H"
    /\ LET new == CollectibleObjects(collectibleDetections, idCounter)
       IN  /\ objects' = objects \o new
           /\ idCounter' = idCounter + Len(new)
    /\ pc' = "I"
    /\ UNCHANGED <<input, candidates, collectibleDetections, obstacleDetections,
                   platforms, bridgesInserted, iterations, playerSpawn,
                   exitSpawn, pickups, enemies, scene, called>>

StepI ==
    /\ pc = "I"
    /\ playerSpawn' = PlayerSpawn(platforms)
    /\ pc' = "J"
    /\ UNCHANGED <<input, candidates, collectibleDetections, obstacleDetections,
                   platforms, bridgesInserted, iterations, objects, idCounter,
                   exitSpawn, pickups, enemies, scene, called>>

StepJ ==
    /\ pc = "J"
    /\ exitSpawn' = ExitSpawn(platforms)
    /\ pc' = "K"
    /\ UNCHANGED <<input, candidates, collectibleDetections, obstacleDetections,
                   platforms, bridgesInserted, iterations, objects, idCounter,
                   playerSpawn, pickups, enemies, scene, called>>

StepK ==
    /\ pc = "K"
    /\ pickups' = Pickups(platforms)
    /\ pc' = "L"
    /\ UNCHANGED <<input, candidates, collectibleDetections, obstacleDetections,
                   platforms, bridgesInserted, iterations, objects, idCounter,
                   playerSpawn, exitSpawn, enemies, scene, called>>

StepL ==
    /\ pc = "L"
    /\ enemies' = Enemies(platforms)
    /\ LET enemyPlatforms == EnemyPlatforms(platforms)
       IN  objects' = MarkAnchors(objects, enemyPlatforms, Len(enemyPlatforms))
    /\ pc' = "M"
    /\ UNCHANGED <<input, candidates, collectibleDetections, obstacleDetections,
                   platforms, bridgesInserted, iterations, idCounter,
                   playerSpawn, exitSpawn, pickups, scene, called>>

StepM ==
    /\ pc = "M"
    /\ scene' = Scene(input, objects, playerSpawn, exitSpawn, enemies, pickups)
    /\ pc' = "done"
    /\ UNCHANGED <<input, candidates, collectibleDetections, obstacleDetections,
                   platforms, bridgesInserted, iterations, objects, idCounter,
                   playerSpawn, exitSpawn, pickups, enemies, called>>

(* return scene: the call's locals are gone; the caller may call again *)
Return ==
    /\ pc = "done"
    /\ pc' = "idle"
    /\ input' = NoInput
    /\ candidates' = <<>>
    /\ collectibleDetections' = <<>>
    /\ obstacleDetections' = <<>>
    /\ platforms' = <<>>
    /\ bridgesInserted' = FALSE
    /\ iterations' = 0
    /\ objects' = <<>>
    /\ playerSpawn' = NoSpawn
    /\ exitSpawn' = NoSpawn
    /\ pickups' = <<>>
    /\ enemies' = <<>>
    /\ scene' = <<>>
    /\ called' = TRUE
    /\ UNCHANGED idCounter

Next ==
    \/ Call
    \/ StepA
    \/ StepB
    \/ StepC
    \/ StepD
    \/ RepairIteration
    \/ ExitLoop
    \/ StepF
    \/ StepG
    \/ StepH
    \/ StepI
    \/ StepJ
    \/ StepK
    \/ StepL
    \/ StepM
    \/ Return

Spec == Init /\ [][Next]_vars

----------------------------------------------------------------------------
(* Properties *)

ObjectsOfType(objs, type) == SelectSeq(objs, LAMBDA o : o.type = type)

(* distance between the nearest edges of two x-intervals, 0 if they meet *)
EdgeDistance(a, b) ==
    Max2(0, Max2(b.x - (a.x + a.w), a.x - (b.x + b.w)))

(* a list of bounds in height order, bottom first, each reachable from the
   one before it *)
Climbable(bs) ==
    \A i \in 1..(Len(bs) - 1) :
        /\ bs[i].y >= bs[i + 1].y
        /\ bs[i].y - bs[i + 1].y <= 250 * Milli
        /\ EdgeDistance(bs[i], bs[i + 1]) <= 400 * Milli

BoundsOf(objs) == [i \in 1..Len(objs) |-> objs[i].bounds_normalized]

InsertedCount == IF bridgesInserted THEN iterations ELSE iterations - 1

(* C1: in every returned scene the platforms are listed bottom to top and
   every platform is within jump height 0.25 and horizontal reach 0.40 of
   the platform before it. *)
C1_LevelSolvable ==
    pc = "done" =>
        Climbable(BoundsOf(ObjectsOfType(scene.objects, "platform")))

(* a scene returned after the repair loop was stopped by its cap *)
C1_CapExhausted ==
    /\ pc = "done"
    /\ iterations = 10
    /\ bridgesInserted

(* C2: once the repair loop has made a scan that inserted nothing, the
   platform list is climbable, before and after the cut to 12 entries, and
   so is the returned scene. *)
C2_CleanExitClimbable ==
    (pc \in {"E", "F", "G", "H", "I", "J", "K", "L", "M", "done"}
     /\ ~bridgesInserted) =>
        /\ Climbable([i \in 1..Len(platforms) |-> platforms[i].bounds])
        /\ pc = "done" =>
               Climbable(BoundsOf(ObjectsOfType(scene.objects, "platform")))

(* a scene returned after repairs that ended with a clean scan *)
C2_RepairedCleanly ==
    /\ pc = "done"
    /\ ~bridgesInserted
    /\ iterations > 1
    /\ \E i \in 1..Len(scene.objects) : scene.objects[i].id.prefix = "bridge"

(* C3: every returned scene has at least 1 and at most 12 platform objects. *)
C3_PlatformCount ==
    pc = "done" =>
        LET n == Len(ObjectsOfType(scene.objects, "platform"))
        IN  1 <= n /\ n <= 12

(* a scene with 12 platforms that lost inserted platforms to the cut *)
C3_CutToTwelve ==
    /\ pc = "done"
    /\ Len(ObjectsOfType(scene.objects, "platform")) = 12
    /\ Len(SelectSeq(scene.objects, LAMBDA o : o.id.prefix = "bridge"))
           < InsertedCount

(* C4: every returned scene has at least 2 pickups. *)
C4_PickupFloor ==
    pc = "done" => Len(scene.spawns.pickups) >= 2

(* a scene built from no detections at all *)
C4_EmptyInput ==
    /\ pc = "done"
    /\ input.detections = <<>>
    /\ Len(scene.spawns.pickups) = 2

FoodOf(dets) == SelectSeq(dets, LAMBDA d : d.category = "food")

(* C5 as claimed: every food detection yields a collectible, one each,
   whatever their number. *)
C5_EveryFoodCollectible ==
    pc = "done" =>
        Len(ObjectsOfType(scene.objects, "collectible"))
            = Len(FoodOf(input.detections))

(* C5 as amended: the collectibles of the scene are the first five food
   detections of the input, one each and in input order; a food detection
   after the fifth yields no object. *)
C5_FirstFiveFoodCollectible ==
    pc = "done" =>
        LET food == FoodOf(input.detections)
            cols == ObjectsOfType(scene.objects, "collectible")
        IN  /\ Len(cols) = Min2(Len(food), 5)
            /\ \A i \in 1..Len(cols) :
                   /\ cols[i].label = food[i].label
                   /\ cols[i].confidence = food[i].confidence
                   /\ cols[i].bounds_normalized = food[i].bounds_normalized
                   /\ cols[i].category = "food"

(* a scene built from six food detections *)
C5_SixFood ==
    /\ pc = "done"
    /\ Len(FoodOf(input.detections)) = 6
    /\ Len(ObjectsOfType(scene.objects, "collectible")) = 5

WithoutFood(in) ==
    [in EXCEPT !.detections = SelectSeq(@, LAMBDA d : d.category # "food")]

(* C6: the platform objects, the obstacle objects and the spawns of a scene
   are those of the scene built from the same input without its food
   detections. *)
C6_FoodNeverPlatform ==
    pc = "done" =>
        LET other == BuildLevel(WithoutFood(input))
        IN  /\ ObjectsOfType(scene.objects, "platform")
                = ObjectsOfType(other.objects, "platform")
            /\ ObjectsOfType(scene.objects, "obstacle")
                = ObjectsOfType(other.objects, "obstacle")
            /\ scene.spawns = other.spawns

(* a scene built from a food detection wide enough for a platform, given
   before a detection that became a platform *)
C6_WideFoodFirst ==
    /\ pc = "done"
    /\ Len(input.detections) = 2
    /\ input.detections[1].category = "food"
    /\ input.detections[1].bounds_normalized.w >= 80 * Milli
    /\ \E i \in 1..Len(scene.objects) : scene.objects[i].id.prefix = "plat"

(* a spawn point stands on a platform object of the scene *)
StandsOnPlatform(spawn, objs) ==
    \E i \in 1..Len(objs) :
        /\ objs[i].type = "platform"
        /\ objs[i].bounds_normalized.x <= spawn.x
        /\ spawn.x <= objs[i].bounds_normalized.x + objs[i].bounds_normalized.w
        /\ spawn.y = objs[i].bounds_normalized.y - 60 * Milli

(* C7: in every returned scene the player spawn and the exit spawn each
   stand on a platform of the scene, 0.06 above it. *)
C7_SpawnsOnPlatforms ==
    pc = "done" =>
        /\ StandsOnPlatform(scene.spawns.player, scene.objects)
        /\ StandsOnPlatform(scene.spawns.exit, scene.objects)

(* C8: the ids of the objects of a returned scene are pairwise distinct,
   and the i-th object carries the number i - 1 whatever calls were made
   before. *)
C8_IdsDistinctPerCall ==
    pc = "done" =>
        /\ \A i, j \in 1..Len(scene.objects) :
               i # j => scene.objects[i].id # scene.objects[j].id
        /\ \A i \in 1..Len(scene.objects) : scene.objects[i].id.n = i - 1

(* a scene with platforms, an obstacle and a collectible, returned by a call
   made after an earlier call *)
C8_SecondCallAllTypes ==
    /\ pc = "done"
    /\ called
    /\ \A t \in {"platform", "obstacle", "collectible"} :
           ObjectsOfType(scene.objects, t) # <<>>
    /\ Len(ObjectsOfType(scene.objects, "platform")) > 1

Normalized(v) == 0 <= v /\ v <= 1000 * Milli

(* C9: every object of a returned scene has x, y, w and h in [0, 1]. *)
C9_BoundsNormalized ==
    pc = "done" =>
        \A i \in 1..Len(scene.objects) :
            LET b == scene.objects[i].bounds_normalized
            IN  Normalized(b.x) /\ Normalized(b.y) /\ Normalized(b.w)
                /\ Normalized(b.h)

(* no detection of the input survives as a platform: each is food, narrower
   than 0.08 after the clamp, or less than 0.05 above the ground *)
NoSurvivor(dets) ==
    \A i \in 1..Len(dets) :
        \/ dets[i].category = "food"
        \/ clamp(dets[i].bounds_normalized.w, 50 * Milli, 900 * Milli) < 80 * Milli
        \/ clamp(dets[i].bounds_normalized.y, 50 * Milli, 900 * Milli) > 870 * Milli

(* C10: when no detection survives as a platform the scene is the minimal
   level: the ground alone, the player at (0.08, 0.86), the exit on the
   ground at height 0.86, the two ground coins, no enemies. *)
C10_MinimalLevel ==
    (pc = "done" /\ NoSurvivor(input.detections)) =>
        LET plats == ObjectsOfType(scene.objects, "platform")
        IN  /\ Len(plats) = 1
            /\ plats[1].bounds_normalized.x = 0
            /\ plats[1].bounds_normalized.y = 920 * Milli
            /\ plats[1].bounds_normalized.w = 1000 * Milli
            /\ plats[1].bounds_normalized.h = 30 * Milli
            /\ plats[1].label = "ground"
            /\ scene.spawns.player = [x |-> 80 * Milli, y |-> 860 * Milli]
            /\ scene.spawns.exit.y = 860 * Milli
            /\ 0 <= scene.spawns.exit.x
            /\ scene.spawns.exit.x <= 1000 * Milli
            /\ scene.spawns.pickups
                   = <<[x |-> 300 * Milli, y |-> 860 * Milli, type |-> "coin"],
                       [x |-> 500 * Milli, y |-> 860 * Milli, type |-> "coin"]>>
            /\ scene.spawns.enemies = <<>>

(* a scene built from a wide detection that the ground absorbed *)
C10_AbsorbedByGround ==
    /\ pc = "done"
    /\ NoSurvivor(input.detections)
    /\ \E i \in 1..Len(input.detections) :
           /\ input.detections[i].category # "food"
           /\ input.detections[i].bounds_normalized.w >= 80 * Milli

(* the platform objects an enemy may stand on: made from a detection and
   wider than 0.15 *)
EnemyEligible(objs) ==
    SelectSeq(objs, LAMBDA o : /\ o.type = "platform"
                               /\ o.id.prefix = "plat"
                               /\ o.bounds_normalized.w > 150 * Milli)

(* C11: a returned scene has at most 2 enemies, all walkers; the i-th enemy
   stands 0.06 above the centre (clamped to [0.05, 0.95]) of the i-th
   platform object that is neither ground nor bridge and wider than 0.15,
   and that object is marked as enemy spawn anchor. *)
C11_EnemiesOnAnchoredPlatforms ==
    pc = "done" =>
        LET eligible == EnemyEligible(scene.objects)
            en == scene.spawns.enemies
        IN  /\ Len(en) <= 2
            /\ Len(en) = Min2(Len(eligible), 2)
            /\ \A i \in 1..Len(en) :
                   LET b == eligible[i].bounds_normalized
                   IN  /\ en[i].type = "walker"
                       /\ en[i].x = clamp(b.x + b.w \div 2, 50 * Milli, 950 * Milli)
                       /\ en[i].y = b.y - 60 * Milli
                       /\ eligible[i].enemy_spawn_anchor

(* a scene with two enemies, more than two platforms they could stand on,
   and an anchor set on a platform whose category does not set it *)
C11_TwoEnemiesOfThree ==
    /\ pc = "done"
    /\ Len(scene.spawns.enemies) = 2
    /\ Len(EnemyEligible(scene.objects)) > 2
    /\ \E i \in 1..Len(scene.objects) :
           /\ scene.objects[i].id.prefix = "plat"
           /\ scene.objects[i].category = "furniture"
           /\ scene.objects[i].enemy_spawn_anchor

(* the pairs (i, i + 1) of a platform list that break a traversal limit *)
BrokenPairs(p) ==
    {i \in 1..(Len(p) - 1) :
        \/ p[i].bounds.y - p[i + 1].bounds.y > 250 * Milli
        \/ EdgeDistance(p[i].bounds, p[i + 1].bounds) > 400 * Milli}

(* q is p after one repair iteration that ended with the flag inserted *)
RepairedOnce(p, q, inserted) ==
    IF BrokenPairs(p) = {}
    THEN q = p /\ ~inserted
    ELSE LET i == CHOOSE k \in BrokenPairs(p) : \A j \in BrokenPairs(p) : k <= j
             lo == p[i].bounds
             up == p[i + 1].bounds
             new == q[i + 1]
         IN  /\ inserted
             /\ Len(q) = Len(p) + 1
             /\ \A j \in 1..i : q[j] = p[j]
             /\ \A j \in (i + 1)..Len(p) : q[j + 1] = p[j]
             /\ new.isBridge /\ ~new.isGround /\ ~new.enemyAnchor
             /\ new.confidence = 100
             /\ new.bounds.w = 150 * Milli
             /\ new.bounds.h = 30 * Milli
             /\ 2 * new.bounds.y = lo.y + up.y
             /\ new.bounds.x
                    = clamp((2 * lo.x + lo.w + 2 * up.x + up.w) \div 4 - 75 * Milli,
                            20 * Milli, 850 * Milli)
             /\ new.label = IF lo.y - up.y > 250 * Milli THEN "bridge"
                            ELSE "stepping stone"

(* C12: an iteration of the repair loop inserts exactly one synthetic
   platform directly between the two platforms of the first pair, bottom
   to top, that breaks a limit (a bridge if the pair breaks the vertical
   limit, else a stepping stone), with isBridge set, confidence 1.0,
   w = 0.15, h = 0.03, y the mean of the two heights and x the clamped mean
   of the two centres less 0.075; it inserts nothing if no pair breaks a
   limit. *)
C12_OneBridgeAtFirstViolation ==
    [][(pc = "E" /\ pc' = "E") =>
          RepairedOnce(platforms, platforms', bridgesInserted')]_vars

(* the loop has inserted a bridge for a vertical violation and a stepping
   stone for a horizontal one *)
C12_BridgeAndSteppingStone ==
    /\ pc = "E"
    /\ bridgesInserted
    /\ \E i \in 1..Len(platforms) : platforms[i].label = "bridge"
    /\ \E i \in 1..Len(platforms) : platforms[i].label = "stepping stone"

SyntheticCount(p) == Len(SelectSeq(p, LAMBDA c : c.isBridge))

(* C13: the repair loop makes at most 10 iterations; an iteration is made
   only while the last one inserted and fewer than 10 were made, and it
   either adds exactly one platform or adds none and clears the flag that
   keeps the loop going; so the list never holds more than 10 synthetic
   platforms nor more than 20 platforms. *)
C13_LoopBounded ==
    /\ [](/\ iterations <= 10
          /\ SyntheticCount(platforms) <= 10
          /\ SyntheticCount(platforms) <= iterations
          /\ Len(platforms) <= 20)
    /\ [][(pc = "E" /\ pc' = "E") =>
             /\ bridgesInserted
             /\ iterations < 10
             /\ iterations' = iterations + 1
             /\ \/ Len(platforms') = Len(platforms) + 1 /\ bridgesInserted'
                \/ Len(platforms') = Len(platforms) /\ ~bridgesInserted']_vars

(* the loop stopped by its cap with 10 platforms inserted into a list of 10 *)
C13_TwentyPlatforms ==
    /\ pc = "E"
    /\ iterations = 10
    /\ bridgesInserted
    /\ SyntheticCount(platforms) = 10
    /\ Len(platforms) = 20

(* two candidates less than 0.05 apart in height whose x-intervals overlap *)
NearDuplicate(a, b) ==
    /\ Abs(a.bounds.y - b.bounds.y) < 50 * Milli
    /\ a.bounds.x < b.bounds.x + b.bounds.w
    /\ b.bounds.x < a.bounds.x + a.bounds.w

(* the n-th smallest element of a set of numbers *)
NthOf(K, n) == CHOOSE i \in K : Cardinality({j \in K : j <= i}) = n

(* K holds the positions of the candidates c that first-accepted-wins keeps *)
IsKeptSet(K, c) ==
    \A i \in 1..Len(c) :
        i \in K <=> ~\E j \in K : j < i /\ NearDuplicate(c[j], c[i])

(* C14: the candidates are scanned in descending y order; a candidate is
   dropped exactly when a kept candidate before it is a near duplicate of
   it, so no two kept candidates are near duplicates; the repair engine
   starts from the first 10 kept candidates, the 10 lowest. *)
C14_Deduplicated ==
    (pc = "E" /\ iterations = 0) =>
        /\ \A i \in 1..(Len(candidates) - 1) :
               candidates[i].bounds.y >= candidates[i + 1].bounds.y
        /\ \E K \in SUBSET (1..Len(candidates)) :
               /\ IsKeptSet(K, candidates)
               /\ platforms = [n \in 1..Min2(Cardinality(K), 10) |->
                                  candidates[NthOf(K, n)]]
        /\ \A i, j \in 1..Len(platforms) :
               i # j => ~NearDuplicate(platforms[i], platforms[j])

(* more than 10 candidates were kept, and a near duplicate was dropped *)
C14_CutToTen ==
    /\ pc = "E"
    /\ iterations = 0
    /\ Len(platforms) = 10
    /\ Len(candidates) > 11
    /\ \E i, j \in 1..Len(candidates) :
           i < j /\ NearDuplicate(candidates[i], candidates[j])

WithPrefix(objs, prefix) ==
    SelectSeq(objs, LAMBDA o : o.type = "platform" /\ o.id.prefix = prefix)

(* the pickup 0.06 above the centre of a platform object *)
PickupAbove(o, type) ==
    [x |-> clamp(o.bounds_normalized.x + o.bounds_normalized.w \div 2,
                 50 * Milli, 950 * Milli),
     y |-> o.bounds_normalized.y - 60 * Milli,
     type |-> type]

(* C15: the pickups are one per platform that is neither ground nor bridge,
   in list order and at most 5, the first a health pickup and the others
   coins; then, if these are fewer than 3, coins on bridges up to 4 pickups
   in total; then, if there are still fewer than 3, the two ground coins at
   x = 0.3 and x = 0.5.  So there are 2 to 5 pickups, and a health pickup
   exists exactly when such a platform exists and only as the first entry. *)
C15_PickupRule ==
    pc = "done" =>
        LET real == WithPrefix(scene.objects, "plat")
            bridges == WithPrefix(scene.objects, "bridge")
            pk == scene.spawns.pickups
            first == [i \in 1..Min2(Len(real), 5) |->
                         PickupAbove(real[i], IF i = 1 THEN "health" ELSE "coin")]
            second == IF Len(first) < 3
                      THEN [i \in 1..Min2(Len(bridges), 4 - Len(first)) |->
                               PickupAbove(bridges[i], "coin")]
                      ELSE <<>>
            third == IF Len(first) + Len(second) < 3
                     THEN <<[x |-> 300 * Milli, y |-> 860 * Milli, type |-> "coin"],
                            [x |-> 500 * Milli, y |-> 860 * Milli, type |-> "coin"]>>
                     ELSE <<>>
        IN  /\ pk = first \o second \o third
            /\ 2 <= Len(pk) /\ Len(pk) <= 5
            /\ \A i \in 1..Len(pk) : pk[i].type = "health" => i = 1
            /\ (\E i \in 1..Len(pk) : pk[i].type = "health") <=> real # <<>>

(* a scene with more than 5 platforms that are neither ground nor bridge *)
C15_MoreThanFivePlatforms ==
    /\ pc = "done"
    /\ Len(WithPrefix(scene.objects, "plat")) > 5
    /\ Len(scene.spawns.pickups) = 5

(* the detections that are not food and narrower than 0.08 once clamped:
   a width below 0.08 clamps to a value below 0.08 *)
IsNarrow(det) ==
    det.category # "food" /\ det.bounds_normalized.w < 80 * Milli

(* the position of detection i among the detections that are not food *)
NonFoodRank(dets, i) ==
    Cardinality({j \in 1..i : dets[j].category # "food"})

(* C16: every platform object of a scene has h = 0.03, x in [0, 0.95],
   y in [0.05, 0.92] and w in [0.08, 1.0]; every synthesized bridge has
   x in [0.02, 0.85] and w = 0.15; a detection that is not food and is
   narrower than 0.08 is no platform of the scene and is in the obstacle
   list. *)
C16_PlatformGeometry ==
    pc = "done" =>
        LET plats == ObjectsOfType(scene.objects, "platform")
            dets == input.detections
        IN  /\ \A i \in 1..Len(plats) :
                   LET b == plats[i].bounds_normalized
                   IN  /\ b.h = 30 * Milli
                       /\ 0 <= b.x /\ b.x <= 950 * Milli
                       /\ 50 * Milli <= b.y /\ b.y <= 920 * Milli
                       /\ 80 * Milli <= b.w /\ b.w <= 1000 * Milli
                       /\ plats[i].id.prefix = "bridge" =>
                              /\ 20 * Milli <= b.x /\ b.x <= 850 * Milli
                              /\ b.w = 150 * Milli
            /\ \A i \in 1..Len(dets) :
                   IsNarrow(dets[i]) =>
                       \A j \in 1..Len(plats) :
                           plats[j].bounds_normalized.ref # NonFoodRank(dets, i)
            /\ obstacleDetections = SelectSeq(dets, IsNarrow)

(* a scene with a narrow detection, a detection of the largest width and
   x that became a platform, and a bridge *)
C16_NarrowAndWidest ==
    /\ pc = "done"
    /\ \E i \in 1..Len(input.detections) : IsNarrow(input.detections[i])
    /\ \E i \in 1..Len(input.detections) :
           /\ ~IsNarrow(input.detections[i])
           /\ input.detections[i].category # "food"
           /\ input.detections[i].bounds_normalized.w = 900 * Milli
           /\ input.detections[i].bounds_normalized.x = 950 * Milli
           /\ \E j \in 1..Len(scene.objects) :
                  /\ scene.objects[j].type = "platform"
                  /\ scene.objects[j].bounds_normalized.ref
                         = NonFoodRank(input.detections, i)
    /\ WithPrefix(scene.objects, "bridge") # <<>>

(* C17: the ground survives de-duplication, the cap at 10, the repair
   loop and the truncation to 12: from the end of Step D on the platform
   list holds exactly one ground platform, as its first entry; the scene
   has exactly one ground object, the first of objects with id ground_0,
   and the player spawns at (0.08, 0.86). *)
C17_GroundSurvives ==
    /\ pc \in {"E", "F", "G", "H", "I", "J", "K", "L", "M", "done"} =>
           /\ platforms # <<>>
           /\ \A i \in 1..Len(platforms) : platforms[i].isGround <=> i = 1
    /\ pc = "done" =>
           /\ Len(WithPrefix(scene.objects, "ground")) = 1
           /\ scene.objects[1].id = nextId("ground", 0)
           /\ scene.objects[1].bounds_normalized.y = 920 * Milli
           /\ scene.spawns.player = [x |-> 80 * Milli, y |-> 860 * Milli]

(* a scene built from more than 10 candidates whose repaired list was
   longer than 12 *)
C17_BothCapsApplied ==
    /\ pc = "done"
    /\ Len(Filtered(candidates)) > MAX_PLATFORMS
    /\ Len(RepairLoop(SortDescY(Take(Filtered(candidates), MAX_PLATFORMS)),
                      TRUE, 0).platforms) > SCHEMA_PLATFORM_CAP
    /\ scene.spawns.player.y = 860 * Milli

(* the candidates derived from detections that lie lower than y = 0.87 *)
LowCandidates(cands) ==
    {i \in 1..Len(cands) :
        ~cands[i].isGround /\ cands[i].bounds.y > 870 * Milli}

(* C18: a candidate derived from a detection whose clamped y is greater
   than 0.87 is dropped by de-duplication, the ground being scanned before
   it and overlapping it horizontally; so every platform other than the
   ground, bridges included, has y <= 0.87, in the list from the end of
   Step D on and in the scene. *)
C18_NothingNearGround ==
    /\ pc = "D" =>
           /\ candidates[1].isGround
           /\ \A i \in LowCandidates(candidates) :
                  horizontalOverlap(candidates[1].bounds, candidates[i].bounds)
    /\ pc \in {"E", "F", "G", "H", "I", "J", "K", "L", "M", "done"} =>
           /\ \A i \in LowCandidates(candidates) :
                  \A j \in 1..Len(platforms) :
                      ~SameObject(platforms[j].bounds, candidates[i].bounds)
           /\ \A j \in 1..Len(platforms) :
                  ~platforms[j].isGround => platforms[j].bounds.y <= 870 * Milli
    /\ pc = "done" =>
           \A j \in 1..Len(scene.objects) :
               (scene.objects[j].type = "platform"
                    /\ scene.objects[j].id.prefix # "ground")
                   => scene.objects[j].bounds_normalized.y <= 870 * Milli

(* a scene built from a detection that clamps to y = 0.90, with a platform
   that survived and a bridge *)
C18_RugAbsorbed ==
    /\ pc = "done"
    /\ LowCandidates(candidates) # {}
    /\ WithPrefix(scene.objects, "plat") # <<>>
    /\ WithPrefix(scene.objects, "bridge") # <<>>

====
